---- MODULE Spec2Model ----
(***************************************************************************)
(* streamlit-app.py: the Bedrock caller with retries and exponential       *)
(* backoff (invoke_claude_model), the three-stage orchestrator             *)
(* (generate_code_in_stages) and the file-reference extractor              *)
(* (extract_file_references).                                              *)
(*                                                                         *)
(* A text (a Python str) is a sequence of one-character strings.  Python   *)
(* indexes from 0 and TLA+ from 1: the cursors i and j of the extractor    *)
(* keep the values of Python, and At(lines, k) reads lines[k].             *)
(***************************************************************************)
EXTENDS Integers, Sequences, FiniteSets, TLC

\* ------------------------------------------------------------------ texts

Min(S) == CHOOSE x \in S : \A y \in S : x <= y

Max(S) == CHOOSE x \in S : \A y \in S : x >= y

\* The characters str.strip() removes and the regex class \s matches.
Whitespace == {" ", "\t", "\n", "\r", "\f"}

\* The regex class \d.
Digit == {"0", "1", "2", "3", "4", "5", "6", "7", "8", "9"}

Letter ==
  {"a", "b", "c", "d", "e", "f", "g", "h", "i", "j", "k", "l", "m",
   "n", "o", "p", "q", "r", "s", "t", "u", "v", "w", "x", "y", "z",
   "A", "B", "C", "D", "E", "F", "G", "H", "I", "J", "K", "L", "M",
   "N", "O", "P", "Q", "R", "S", "T", "U", "V", "W", "X", "Y", "Z"}

\* The regex class \w.
WordChar == Letter \cup Digit \cup {"_"}

\* The regex class [\w\-./].
PathChar == WordChar \cup {"-", ".", "/"}

\* The backtick character, which a TLA+ string cannot hold.
BACKTICK == "<backtick>"

\* The fence marker: three backticks.
FENCE == <<BACKTICK, BACKTICK, BACKTICK>>

\* The default file name app.js.
DEFAULT_PATH == <<"a", "p", "p", ".", "j", "s">>

\* The literal filename: of the comment pattern.
FILENAME_LABEL == <<"f", "i", "l", "e", "n", "a", "m", "e", ":">>

\* The value of a regex match object that is None.
NoMatch == <<>>

At(seq, k) == seq[k + 1]

\* s.strip()
strip(s) ==
  LET keep == {k \in 1..Len(s) : s[k] \notin Whitespace}
  IN  IF keep = {} THEN <<>> ELSE SubSeq(s, Min(keep), Max(keep))

\* s.startswith(p)
startswith(s, p) == Len(s) >= Len(p) /\ SubSeq(s, 1, Len(p)) = p

\* The position (from 1) of the first occurrence of p in s at or after
\* position from, 0 when there is none.
find(s, p, from) ==
  LET hits == {k \in from..(Len(s) - Len(p) + 1) : SubSeq(s, k, k + Len(p) - 1) = p}
  IN  IF hits = {} THEN 0 ELSE Min(hits)

\* p in s
contains(s, p) == find(s, p, 1) # 0

RECURSIVE split_from(_, _, _)
split_from(s, sep, from) ==
  LET k == find(s, sep, from)
  IN  IF k = 0
      THEN <<SubSeq(s, from, Len(s))>>
      ELSE <<SubSeq(s, from, k - 1)>> \o split_from(s, sep, k + Len(sep))

\* s.split(sep)
split(s, sep) == split_from(s, sep, 1)

\* s.split(sep, 1)
split_once(s, sep) ==
  LET k == find(s, sep, 1)
  IN  IF k = 0
      THEN <<s>>
      ELSE <<SubSeq(s, 1, k - 1), SubSeq(s, k + Len(sep), Len(s))>>

RECURSIVE join(_)
\* NL.join(parts)
join(parts) ==
  IF Len(parts) = 0 THEN <<>>
  ELSE IF Len(parts) = 1 THEN parts[1]
  ELSE parts[1] \o <<"\n">> \o join(Tail(parts))

\* The position after the longest run of characters of class at position
\* from of s (from itself when the run is empty).
run_end(s, from, class) ==
  LET stop == {k \in from..Len(s) : s[k] \notin class}
  IN  IF stop = {} THEN Len(s) + 1 ELSE Min(stop)

\* ------------------------------------------------- the path patterns

\* Whether all of s matches [\w\-./]+\.\w+: path characters only, and a dot
\* that has a character before it and one or more word characters, and
\* nothing else, after it.
path_token(s) ==
  /\ \A k \in 1..Len(s) : s[k] \in PathChar
  /\ \E d \in 2..(Len(s) - 1) :
       /\ s[d] = "."
       /\ \A k \in (d + 1)..Len(s) : s[k] \in WordChar

\* \*\*([\w\-./]+\.\w+)\*\* matched at position p of line: the group, or
\* NoMatch.  A star is no path character, so the group is the whole run of
\* path characters after the opening stars.
bold_at(line, p) ==
  IF p + 1 <= Len(line) /\ line[p] = "*" /\ line[p + 1] = "*"
  THEN LET e == run_end(line, p + 2, PathChar)
           tok == SubSeq(line, p + 2, e - 1)
       IN  IF /\ e + 1 <= Len(line)
              /\ line[e] = "*"
              /\ line[e + 1] = "*"
              /\ path_token(tok)
           THEN tok
           ELSE NoMatch
  ELSE NoMatch

\* ^([\w\-./]+\.\w+):$
colon_header(line) ==
  IF Len(line) >= 1 /\ line[Len(line)] = ":" /\ path_token(SubSeq(line, 1, Len(line) - 1))
  THEN SubSeq(line, 1, Len(line) - 1)
  ELSE NoMatch

\* ^#\s+([\w\-./]+\.\w+)$
hash_header(line) ==
  IF Len(line) >= 1 /\ line[1] = "#"
  THEN LET t == run_end(line, 2, Whitespace)
           tok == SubSeq(line, t, Len(line))
       IN  IF t > 2 /\ path_token(tok) THEN tok ELSE NoMatch
  ELSE NoMatch

\* re.search of the alternation 1a|1b|1c: the leftmost position that
\* matches wins, and at one position the alternatives are tried in order.
\* Only 1a can match after the first position.
file_header_match(line) ==
  IF bold_at(line, 1) # NoMatch THEN bold_at(line, 1)
  ELSE IF colon_header(line) # NoMatch THEN colon_header(line)
  ELSE IF hash_header(line) # NoMatch THEN hash_header(line)
  ELSE LET ps == {p \in 2..Len(line) : bold_at(line, p) # NoMatch}
       IN  IF ps = {} THEN NoMatch ELSE bold_at(line, Min(ps))

\* ^\d+\.\s+([\w\-./]+\.\w+)\s*$
numbered_file_match(line) ==
  LET d == run_end(line, 1, Digit)
  IN  IF d > 1 /\ d <= Len(line) /\ line[d] = "."
      THEN LET t == run_end(line, d + 1, Whitespace)
               tok == SubSeq(line, t, Len(line))
           IN  IF t > d + 1 /\ path_token(tok) THEN tok ELSE NoMatch
      ELSE NoMatch

\* //\s*filename:\s*([\w\-./]+\.\w+)\s*$ matched at position p of line.
comment_at(line, p) ==
  IF p + 1 <= Len(line) /\ line[p] = "/" /\ line[p + 1] = "/"
  THEN LET l == run_end(line, p + 2, Whitespace)
       IN  IF startswith(SubSeq(line, l, Len(line)), FILENAME_LABEL)
           THEN LET t == run_end(line, l + Len(FILENAME_LABEL), Whitespace)
                    tok == SubSeq(line, t, Len(line))
                IN  IF path_token(tok) THEN tok ELSE NoMatch
           ELSE NoMatch
  ELSE NoMatch

comment_file_match(line) ==
  LET ps == {p \in 1..Len(line) : comment_at(line, p) # NoMatch}
  IN  IF ps = {} THEN NoMatch ELSE comment_at(line, Min(ps))

\* A line that opens a block when it starts, a single backtick included.
opens_block_loose(l) == startswith(strip(l), <<BACKTICK>>)

\* Whether a line opens a block: lines[j].strip().startswith(FENCE)
opens_block(l) == startswith(strip(l), FENCE)

\* ^([\w\-./]+\.\w+)\s*$, tried only when the next line starts a fence.
file_before_block_match(lines, i) ==
  IF i + 1 < Len(lines) /\ opens_block(At(lines, i + 1))
  THEN IF path_token(strip(At(lines, i))) THEN strip(At(lines, i)) ELSE NoMatch
  ELSE NoMatch

\* ^FENCE \w*:([\w\-./]+\.\w+)$
code_block_with_path_match(line) ==
  IF startswith(line, FENCE)
  THEN LET c == run_end(line, Len(FENCE) + 1, WordChar)
           tok == SubSeq(line, c + 1, Len(line))
       IN  IF c <= Len(line) /\ line[c] = ":" /\ path_token(tok) THEN tok ELSE NoMatch
  ELSE NoMatch

\* The path of the first of the patterns 1 to 4 that matched, in the order
\* of the if/elif chain.
announced_path(lines, i) ==
  LET line == strip(At(lines, i))
  IN  IF file_header_match(line) # NoMatch THEN file_header_match(line)
      ELSE IF numbered_file_match(line) # NoMatch THEN numbered_file_match(line)
      ELSE IF comment_file_match(line) # NoMatch THEN comment_file_match(line)
      ELSE file_before_block_match(lines, i)

\* --------------------------------------------- extract_file_references

\* A lookahead that takes the next line for a fence.
skip_to_fence_blind(lines, j) == IF j < Len(lines) THEN j ELSE Len(lines)

\* A lookahead of one line only.
skip_to_fence_next(lines, j) ==
  IF j < Len(lines) /\ opens_block(At(lines, j)) THEN j ELSE Len(lines)

\* while j < len(lines) and not lines[j].strip().startswith(FENCE): j += 1
skip_to_fence(lines, j) ==
  LET hits == {k \in j..(Len(lines) - 1) : opens_block(At(lines, k))}
  IN  IF hits = {} THEN Len(lines) ELSE Min(hits)

\* Whether a line ends the block being collected: lines[j].strip() == FENCE
closes_block(l) == strip(l) = FENCE

\* A collecting loop that no line ends.
skip_to_close_never(lines, j) == Len(lines)

\* while j < len(lines) and not lines[j].strip() == FENCE: j += 1
skip_to_close(lines, j) ==
  LET hits == {k \in j..(Len(lines) - 1) : closes_block(At(lines, k))}
  IN  IF hits = {} THEN Len(lines) ELSE Min(hits)

\* The content with every line stripped before it is appended.
code_content_stripped(lines, first, last) ==
  join([k \in 1..(last - first) |-> strip(lines[first + k])])

\* code_content: the lines appended while j runs from first up to last - 1,
\* joined by NL.
code_content(lines, first, last) == join(SubSeq(lines, first + 1, last))

\* The cursor set back to the first line after a block.
after_block_rewind(lines, j) == 0

\* The cursor moved one line too far after a block.
after_block_skip(lines, j) == IF j < Len(lines) THEN j + 2 ELSE j

\* The cursor after a block whose collecting loop ended at j.
after_block(lines, j) == IF j < Len(lines) THEN j + 1 ELSE j

\* An entry that replaces the earlier entries of its path.
take_block_dedup(lines, open, file_path, files) ==
  LET j == skip_to_close(lines, open)
  IN  [i |-> IF j < Len(lines) THEN j + 1 ELSE j,
       files |-> Append(SelectSeq(files, LAMBDA f : f.path # file_path),
                        [path |-> file_path, content |-> code_content(lines, open, j)])]

\* A block with no closing fence dropped.
take_block_closed_only(lines, open, file_path, files) ==
  LET j == skip_to_close(lines, open)
  IN  IF j < Len(lines)
      THEN [i |-> after_block(lines, j),
            files |-> Append(files, [path |-> file_path,
                                     content |-> code_content(lines, open, j)])]
      ELSE [i |-> open, files |-> files]

\* files.append({...}) and the cursor move, for a block whose content starts
\* at line open.
take_block(lines, open, file_path, files) ==
  LET j == skip_to_close(lines, open)
  IN  [i |-> after_block(lines, j),
       files |-> Append(files, [path |-> file_path,
                                content |-> code_content(lines, open, j)])]

\* One iteration of the outer while loop, at cursor i: the cursor and the
\* files after it.
scan_line(lines, i, files) ==
  LET line == strip(At(lines, i))
      file_path == announced_path(lines, i)
      j == skip_to_fence(lines, i + 1)
  IN  IF file_path # NoMatch /\ j < Len(lines)
      THEN take_block(lines, j + 1, file_path, files)
      ELSE IF code_block_with_path_match(line) # NoMatch
      THEN take_block(lines, i + 1, code_block_with_path_match(line), files)
      ELSE [i |-> i + 1, files |-> files]

\* The lines the iteration at cursor i collects into code_content: the value
\* of j when the collecting loop starts and when it ends, one pair when the
\* iteration appends a file and none when it does not.
scan_span(lines, i) ==
  LET j == skip_to_fence(lines, i + 1)
      first == IF announced_path(lines, i) # NoMatch /\ j < Len(lines) THEN j + 1
               ELSE IF code_block_with_path_match(strip(At(lines, i))) # NoMatch THEN i + 1
               ELSE Len(lines) + 1
  IN  IF first <= Len(lines)
      THEN <<[first |-> first, last |-> skip_to_close(lines, first)]>>
      ELSE <<>>

\* The special case after the scan: a single block of code with no file
\* name becomes app.js.
single_block_fallback(code, files) ==
  IF Len(files) = 0 /\ contains(code, FENCE)
  THEN LET code_parts == split(code, FENCE)
       IN  IF Len(code_parts) >= 3
           THEN LET part == At(code_parts, 1)
                    content == IF contains(part, <<"\n">>)
                               THEN At(split_once(part, <<"\n">>), 1)
                               ELSE part
                IN  Append(files, [path |-> DEFAULT_PATH, content |-> content])
           ELSE files
  ELSE files

\* The threshold of the default file: len(code) > 100.
MIN_CODE_LEN == 100

\* all(f[path] for f in files)
all_paths_truthy(files) == \A k \in 1..Len(files) : Len(files[k].path) > 0

\* The last step: a default file for code with no files detected.
default_file(code, files) ==
  IF Len(files) = 0 /\ Len(code) > MIN_CODE_LEN /\ ~all_paths_truthy(files)
  THEN Append(files, [path |-> DEFAULT_PATH, content |-> strip(code)])
  ELSE files

RECURSIVE scan_from(_, _, _)
\* The outer while loop run to its end from cursor i.
scan_from(lines, i, files) ==
  IF i < Len(lines)
  THEN LET s == scan_line(lines, i, files) IN scan_from(lines, s.i, s.files)
  ELSE files

\* extract_file_references(code) as a function of its argument.
extract_file_references(code) ==
  default_file(code, single_block_fallback(code, scan_from(split(code, <<"\n">>), 0, <<>>)))

\* ------------------------------------------------------------ the state

VARIABLES
  pc,             \* where the thread is: off, idle, remote, returned, raised
  entry,          \* the function called from outside: none, invoke, stages
  stage,          \* the stage generate_code_in_stages is in (0: none)
  base_prompt,    \* user_prompt of generate_code_in_stages
  user_prompt,    \* user_prompt of the running invoke_claude_model
  max_retries,    \* max_retries of the running invoke_claude_model
  retries,        \* its local retries
  full_response,  \* its local full_response
  stage1_result,  \* locals of generate_code_in_stages
  stage2_result,
  result,         \* the value returned to the outside caller, or None
  error,          \* the exception that reached the outside caller, or None
  log,            \* history: remote attempts, sleeps, returns, progress reports
  prompts,        \* history: user_prompt of every invoke_claude_model call
  responses,      \* history: the text of every successful remote call
  returns,        \* history: the value every invoke_claude_model call returned
  xpc,            \* where extract_file_references is: off, scan, done
  code,           \* its argument
  lines,          \* its local lines
  i,              \* its cursor
  files,          \* its local files
  gen,            \* history: the units the argument was written from
  spans,          \* history: the lines each entry of the scan was collected from
  runs,           \* history: the argument and the result of every finished extraction
  hpc,            \* where the button handler is: idle, generating
  widgets,        \* the inputs of the running handler: folder_name, file_name
  clicks,         \* the number of clicks on the button so far
  session,        \* st.session_state: generated_code, file_name, folder_name
  saved,          \* history: the files_to_create of every save_code_to_file call
  disk,           \* history: every mkdir and every write to a file, in order
  ui              \* history: the messages the button handler has shown

call_vars ==
  <<pc, entry, stage, base_prompt, user_prompt, max_retries, retries, full_response,
    stage1_result, stage2_result, result, error, log, prompts, responses, returns>>

extract_vars == <<xpc, code, lines, i, files, gen, spans>>

app_vars == <<runs, hpc, widgets, clicks, session, saved, disk, ui>>

vars ==
  <<pc, entry, stage, base_prompt, user_prompt, max_retries, retries, full_response,
    stage1_result, stage2_result, result, error, log, prompts, responses, returns,
    xpc, code, lines, i, files, gen, spans,
    runs, hpc, widgets, clicks, session, saved, disk, ui>>

\* Python None, for a text or an exception that is not there.
None == <<"None">>

\* ------------------------------------------------ invoke_claude_model

\* The default of the parameter max_retries.
DEFAULT_MAX_RETRIES == 3

max_tokens_per_request == 2000

\* The largest max_retries a direct call is given.
MaxRetriesBound == 4

\* len(response_text) >= max_tokens_per_request * 0.9
is_truncated(response_text) == Len(response_text) * 10 >= max_tokens_per_request * 9

\* A backoff that grows linearly.
wait_time_linear(n) == 2 * n

\* wait_time = 2 ** retries
wait_time(n) == 2 ^ n

\* A retry budget one short.
may_retry_strict(n, limit) == n < limit

\* if retries <= max_retries, after retries += 1: sleep and try again.
may_retry(n, limit) == n <= limit

\* A truncated text makes the loop ask again.
success_exit_continue(response_text) ==
  IF is_truncated(response_text) THEN "continue" ELSE "return"

\* How a successful attempt leaves the while loop: by break when the text
\* counts as truncated (to the return after the loop), by return otherwise.
success_exit(response_text) == IF is_truncated(response_text) THEN "break" ELSE "return"

\* The exception of the failed attempt n of a stage: every failure raises an
\* exception of its own.
TransportError(s, n) == <<"TransportError", s, n>>

Event(e, s, n) == [ev |-> e, stage |-> s, n |-> n]

\* ------------------------------------------- generate_code_in_stages

STAGE1_INSTRUCTION ==
  <<"\n", "\n", "S", "t", "a", "r", "t", " ", "b", "y", " ", "g", "e", "n", "e", "r", "a", "t", "i", "n", "g", " ", "t", "h", "e", " ", "o", "v", "e", "r", "a", "l", "l", " ", "s", "t", "r", "u", "c", "t", "u", "r", "e", " ", "o", "f", " ", "t", "h", "e", " ", "N", "o", "d", "e", ".", "j", "s", " ", "E", "x", "p", "r", "e", "s", "s", " ", "A", "P", "I", " ", "w", "i", "t", "h", " ", "t", "h", "e", " ", "m", "a", "i", "n", " ", "f", "i", "l", "e", " ", "o", "r", "g", "a", "n", "i", "z", "a", "t", "i", "o", "n", " ", "a", "n", "d", " ", "e", "s", "s", "e", "n", "t", "i", "a", "l", " ", "i", "m", "p", "o", "r", "t", "s", ".">>

STAGE2_INSTRUCTION ==
  <<"\n", "\n", "B", "a", "s", "e", "d", " ", "o", "n", " ", "t", "h", "e", " ", "f", "o", "l", "l", "o", "w", "i", "n", "g", " ", "i", "n", "i", "t", "i", "a", "l", " ", "c", "o", "d", "e", " ", "s", "t", "r", "u", "c", "t", "u", "r", "e", ",", " ", "p", "l", "e", "a", "s", "e", " ", "e", "x", "p", "a", "n", "d", " ", "i", "t", " ", "w", "i", "t", "h", " ", "d", "e", "t", "a", "i", "l", "e", "d", " ", "m", "o", "d", "e", "l", " ", "d", "e", "f", "i", "n", "i", "t", "i", "o", "n", "s", " ", "a", "n", "d", " ", "u", "t", "i", "l", "i", "t", "y", " ", "f", "u", "n", "c", "t", "i", "o", "n", "s", ":", "\n", "\n">>

STAGE3_INSTRUCTION ==
  <<"\n", "\n", "B", "a", "s", "e", "d", " ", "o", "n", " ", "t", "h", "e", " ", "f", "o", "l", "l", "o", "w", "i", "n", "g", " ", "c", "o", "d", "e", " ", "w", "i", "t", "h", " ", "m", "o", "d", "e", "l", "s", " ", "a", "n", "d", " ", "u", "t", "i", "l", "i", "t", "i", "e", "s", ",", " ", "p", "l", "e", "a", "s", "e", " ", "c", "o", "m", "p", "l", "e", "t", "e", " ", "t", "h", "e", " ", "i", "m", "p", "l", "e", "m", "e", "n", "t", "a", "t", "i", "o", "n", " ", "w", "i", "t", "h", " ", "d", "e", "t", "a", "i", "l", "e", "d", " ", "r", "o", "u", "t", "e", " ", "h", "a", "n", "d", "l", "e", "r", "s", " ", "a", "n", "d", " ", "O", "p", "e", "n", "S", "e", "a", "r", "c", "h", " ", "i", "n", "t", "e", "g", "r", "a", "t", "i", "o", "n", ":", "\n", "\n">>

stage1_prompt(prompt) == prompt \o STAGE1_INSTRUCTION

stage2_prompt(prompt, s1) == prompt \o STAGE2_INSTRUCTION \o s1

\* Stage 3 built on the output of stage 1.
stage3_prompt_stale(prompt, s1, s2) == prompt \o STAGE3_INSTRUCTION \o s1

stage3_prompt(prompt, s1, s2) == prompt \o STAGE3_INSTRUCTION \o s2

\* ------------------------------------------------------- the inputs

\* A text of n characters c.
Repeat(c, n) == [k \in 1..n |-> c]

\* The texts the remote call answers with: two short ones and one as long
\* as the truncation threshold.
RESPONSE_A == <<"A", ":", " ", "s", "c", "a", "f", "f", "o", "l", "d">>

RESPONSE_B == <<"B", ":", " ", "m", "o", "d", "e", "l", "s">>

RESPONSE_LONG == Repeat("x", (max_tokens_per_request * 9) \div 10)

Responses == {RESPONSE_A, RESPONSE_B, RESPONSE_LONG}

\* The prompt of a call from outside.
BASE_PROMPT == <<"R", "e", "q", "u", "i", "r", "e", "m", "e", "n", "t">>

\* ------------------------------------------------------------- Init

ExtractOff ==
  /\ xpc = "off"
  /\ code = <<>>
  /\ lines = <<>>
  /\ i = 0
  /\ files = <<>>
  /\ gen = <<>>
  /\ spans = <<>>

CallsAt(p) ==
  /\ pc = p
  /\ entry = "none"
  /\ stage = 0
  /\ base_prompt = None
  /\ user_prompt = None
  /\ max_retries = 0
  /\ retries = 0
  /\ full_response = <<>>
  /\ stage1_result = None
  /\ stage2_result = None
  /\ result = None
  /\ error = None
  /\ log = <<>>
  /\ prompts = <<>>
  /\ responses = <<>>
  /\ returns = <<>>

\* The session state as lines 22 to 27 initialise it, nothing saved or shown.
AppOff ==
  /\ runs = <<>>
  /\ hpc = "idle"
  /\ widgets = [folder_name |-> <<>>, file_name |-> <<>>]
  /\ clicks = 0
  /\ session = [generated_code |-> <<>>, file_name |-> <<>>, folder_name |-> <<>>]
  /\ saved = <<>>
  /\ disk = <<>>
  /\ ui = <<>>

Init == CallsAt("idle") /\ ExtractOff /\ AppOff

\* ---------------------------------------------------------- actions

\* invoke_claude_model(system_prompt, prompt, m) called from outside: the
\* locals are set and the while loop is entered (0 <= m).
InvokeDirect(prompt, m) ==
  /\ pc = "idle"
  /\ pc' = "remote"
  /\ entry' = "invoke"
  /\ user_prompt' = prompt
  /\ max_retries' = m
  /\ retries' = 0
  /\ full_response' = <<>>
  /\ prompts' = Append(prompts, prompt)
  /\ UNCHANGED <<stage, base_prompt, stage1_result, stage2_result, result, error, log,
                 responses, returns>>
  /\ UNCHANGED extract_vars
  /\ UNCHANGED app_vars

\* generate_code_in_stages(system_prompt, prompt) called from outside, up to
\* the first remote call of stage 1.
GenerateStaged(prompt) ==
  /\ pc = "idle"
  /\ pc' = "remote"
  /\ entry' = "stages"
  /\ stage' = 1
  /\ base_prompt' = prompt
  /\ user_prompt' = stage1_prompt(prompt)
  /\ max_retries' = DEFAULT_MAX_RETRIES
  /\ retries' = 0
  /\ full_response' = <<>>
  /\ prompts' = Append(prompts, stage1_prompt(prompt))
  /\ UNCHANGED <<stage1_result, stage2_result, result, error, log, responses, returns>>
  /\ UNCHANGED extract_vars
  /\ UNCHANGED app_vars

\* The progress of the next stage reported as soon as it starts.
after_stage_early(s) ==
  <<Event("return", s, 0), Event("progress", s, 0)>>
  \o (IF s < 3 THEN <<Event("progress", s + 1, 0)>> ELSE <<>>)

\* A stage that returns with no progress report.
after_stage_silent(s) == <<Event("return", s, 0)>>

\* What generate_code_in_stages logs once the call of stage s has returned:
\* the stage is complete and its progress is reported.
after_stage(s) == <<Event("return", s, 0), Event("progress", s, 0)>>

\* invoke_claude_model returns value: to the outside caller, or into
\* generate_code_in_stages, which reports the progress of the stage and goes
\* on to the first remote call of the next stage, or returns after stage 3.
\* events is the log up to the return.
Returned(value, events) ==
  /\ returns' = Append(returns, value)
  /\ IF entry = "invoke"
     THEN /\ pc' = "returned"
          /\ result' = value
          /\ full_response' = value
          /\ log' = events \o <<Event("return", stage, 0)>>
          /\ UNCHANGED <<stage, user_prompt, retries, stage1_result, stage2_result, prompts>>
     ELSE IF stage = 1
     THEN /\ pc' = "remote"
          /\ stage' = 2
          /\ stage1_result' = value
          /\ user_prompt' = stage2_prompt(base_prompt, value)
          /\ prompts' = Append(prompts, stage2_prompt(base_prompt, value))
          /\ retries' = 0
          /\ full_response' = <<>>
          /\ log' = events \o after_stage(1)
          /\ UNCHANGED <<stage2_result, result>>
     ELSE IF stage = 2
     THEN /\ pc' = "remote"
          /\ stage' = 3
          /\ stage2_result' = value
          /\ user_prompt' = stage3_prompt(base_prompt, stage1_result, value)
          /\ prompts' = Append(prompts, stage3_prompt(base_prompt, stage1_result, value))
          /\ retries' = 0
          /\ full_response' = <<>>
          /\ log' = events \o after_stage(2)
          /\ UNCHANGED <<stage1_result, result>>
     ELSE /\ pc' = "returned"
          /\ result' = value
          /\ full_response' = value
          /\ log' = events \o after_stage(3)
          /\ UNCHANGED <<stage, user_prompt, retries, stage1_result, stage2_result, prompts>>

\* One iteration of the while loop in which the remote call answers text.
RemoteSucceeds(text) ==
  /\ pc = "remote"
  /\ retries <= max_retries
  /\ responses' = Append(responses, text)
  /\ LET events == log \o <<Event("attempt", stage, retries + 1), Event("ok", stage, retries + 1)>>
     IN  IF success_exit(text) \in {"break", "return"}
         THEN Returned(full_response \o text, events)
         ELSE /\ full_response' = full_response \o text
              /\ log' = events
              /\ UNCHANGED <<pc, stage, user_prompt, retries, stage1_result, stage2_result,
                             result, prompts, returns>>
  /\ UNCHANGED <<entry, base_prompt, max_retries, error>>
  /\ UNCHANGED extract_vars
  /\ UNCHANGED app_vars

\* One iteration of the while loop in which the remote call raises: the
\* except clause sleeps and the loop goes on, or the exception is raised again
\* and, caught nowhere, leaves every function up to the outside caller.
RemoteFails ==
  /\ pc = "remote"
  /\ retries <= max_retries
  /\ retries' = retries + 1
  /\ LET e == TransportError(stage, retries + 1)
         events == log \o <<Event("attempt", stage, retries + 1), Event("fail", stage, retries + 1)>>
     IN  IF may_retry(retries + 1, max_retries)
         THEN /\ log' = events \o <<Event("sleep", stage, wait_time(retries + 1))>>
              /\ UNCHANGED <<pc, error>>
         ELSE /\ pc' = "raised"
              /\ error' = e
              /\ log' = events \o <<Event("raise", stage, 0)>>
  /\ UNCHANGED <<entry, stage, base_prompt, user_prompt, max_retries, full_response,
                 stage1_result, stage2_result, result, prompts, responses, returns>>
  /\ UNCHANGED extract_vars
  /\ UNCHANGED app_vars

Next ==
  \/ \E m \in 0..MaxRetriesBound : InvokeDirect(BASE_PROMPT, m)
  \/ GenerateStaged(BASE_PROMPT)
  \/ \E text \in Responses : RemoteSucceeds(text)
  \/ RemoteFails

Spec == Init /\ [][Next]_vars

\* ------------------------------------- extract_file_references, stepwise

\* extract_file_references(text) is called: files = [], the text is split
\* into lines and the cursor is at the first one.
ExtractOf(text, units) ==
  /\ xpc = "scan"
  /\ code = text
  /\ lines = split(text, <<"\n">>)
  /\ i = 0
  /\ files = <<>>
  /\ gen = units
  /\ spans = <<>>

\* One iteration of the outer while loop.
ScanLine ==
  /\ xpc = "scan"
  /\ i < Len(lines)
  /\ LET s == scan_line(lines, i, files)
     IN  /\ i' = s.i
         /\ files' = s.files
  /\ spans' = spans \o scan_span(lines, i)
  /\ UNCHANGED <<xpc, code, lines, gen>>
  /\ UNCHANGED call_vars
  /\ UNCHANGED app_vars

\* The loop has ended: the single-block special case, the default file, and
\* the return.
Finish ==
  /\ xpc = "scan"
  /\ i >= Len(lines)
  /\ files' = default_file(code, single_block_fallback(code, files))
  /\ xpc' = "done"
  /\ runs' = Append(runs, [code |-> code, files |-> files'])
  /\ UNCHANGED <<code, lines, i, gen, spans>>
  /\ UNCHANGED call_vars
  /\ UNCHANGED <<hpc, widgets, clicks, session, saved, disk, ui>>

NextExtract == ScanLine \/ Finish

\* The list of the previous call kept.
files_kept(previous) == previous

\* files = [] : the list a call starts from, whatever the previous call
\* left in its own.
files_at_entry(previous) == <<>>

\* extract_file_references(text) is called, for the first time or after an
\* earlier call has returned.
CallExtract(text, units) ==
  /\ xpc \in {"off", "done"}
  /\ xpc' = "scan"
  /\ code' = text
  /\ lines' = split(text, <<"\n">>)
  /\ i' = 0
  /\ files' = files_at_entry(files)
  /\ gen' = units
  /\ spans' = <<>>
  /\ UNCHANGED call_vars
  /\ UNCHANGED app_vars

\* ------------------------------------------- the texts it is given

\* A response is written from units: a line of prose, or a block.  A block
\* is the line that announces or opens it, the lines up to its opening fence,
\* the opening fence (none when the announcing line is the opening fence),
\* its content lines and its closing fence.
Prose(l) == [kind |-> "prose", head |-> <<l>>, body |-> <<>>, tail |-> <<>>, path |-> <<>>]

Block(ann, gap, open, body, close, path) ==
  [kind |-> "block", head |-> <<ann>> \o gap \o open, body |-> body, tail |-> close, path |-> path]

unit_lines(u) == u.head \o u.body \o u.tail

RECURSIVE units_lines(_)
units_lines(units) ==
  IF units = <<>> THEN <<>> ELSE unit_lines(Head(units)) \o units_lines(Tail(units))

\* The text of a response written from units.
Render(units) == join(units_lines(units))

RECURSIVE announced_files(_)
\* What the units of a response announce: per block, in order, its path and
\* its content lines joined by newlines.
announced_files(units) ==
  IF units = <<>> THEN <<>>
  ELSE (IF Head(units).kind = "block"
        THEN <<[path |-> Head(units).path, content |-> join(Head(units).body)]>>
        ELSE <<>>) \o announced_files(Tail(units))

\* All sequences of at most n elements of S.
SeqsUpTo(S, n) == UNION {[1..k -> S] : k \in 0..n}

LONG_LINE == Repeat("x", MIN_CODE_LEN + 1)

\* Lines a response is made of.
LineVocab ==
  { <<>>,
    <<"x", " ", "=", " ", "1">>,
    <<"*", "*", "a", ".", "j", "s", "*", "*">>,
    <<"1", ".", " ", "s", "r", "c", "/", "b", ".", "t", "s">>,
    <<"/", "/", " ", "f", "i", "l", "e", "n", "a", "m", "e", ":", " ", "c", ".", "p", "y">>,
    <<"d", ".", "g", "o">>,
    <<BACKTICK, "x", BACKTICK>>,
    <<BACKTICK, BACKTICK, BACKTICK>>,
    <<BACKTICK, BACKTICK, BACKTICK, "j", "s">>,
    <<BACKTICK, BACKTICK, BACKTICK, "j", "s", ":", "e", "/", "f", ".", "j", "s">>,
    LONG_LINE }

\* The longest response, in lines, of the general specification.
MaxLines == 3

InitExtract ==
  /\ CallsAt("off")
  /\ AppOff
  /\ \E ls \in SeqsUpTo(LineVocab, MaxLines) :
       ExtractOf(join(ls), [k \in 1..Len(ls) |-> Prose(ls[k])])

\* Any response of at most MaxLines lines of LineVocab.
SpecExtract == InitExtract /\ [][NextExtract]_vars

\* ------------------------------------------- the Generate Code button

\* format_prompt(requirement): the template around the requirement.
PROMPT_HEAD ==
  <<"\n", "B", "a", "s", "e", "d", " ", "o", "n", " ", "t", "h", "e", " ", "f", "o", "l", "l", "o", "w", "i", "n", "g", " ", "r", "e", "q", "u", "i", "r", "e", "m", "e", "n", "t", ",", " ", "p", "l", "e", "a", "s", "e", " ", "g", "e", "n", "e", "r", "a", "t", "e", " ", "c", "o", "m", "p", "l", "e", "t", "e", ",", " ", "p", "r", "o", "d", "u", "c", "t", "i", "o", "n", "-", "r", "e", "a", "d", "y", " ", "N", "o", "d", "e", ".", "j", "s", " ", "E", "x", "p", "r", "e", "s", "s", " ", "A", "P", "I", " ", "c", "o", "d", "e", ":", "\n", "\n", "R", "E", "Q", "U", "I", "R", "E", "M", "E", "N", "T", ":", "\n">>

PROMPT_TAIL ==
  <<"\n", "\n", "P", "l", "e", "a", "s", "e", " ", "f", "o", "l", "l", "o", "w", " ", "a", "l", "l", " ", "t", "h", "e", " ", "a", "r", "c", "h", "i", "t", "e", "c", "t", "u", "r", "e", " ", "p", "a", "t", "t", "e", "r", "n", "s", ",", " ", "c", "o", "d", "i", "n", "g", " ", "s", "t", "a", "n", "d", "a", "r", "d", "s", ",", " ", "a", "n", "d", " ", "i", "m", "p", "l", "e", "m", "e", "n", "t", "a", "t", "i", "o", "n", " ", "g", "u", "i", "d", "e", "l", "i", "n", "e", "s", " ", "a", "s", " ", "s", "p", "e", "c", "i", "f", "i", "e", "d", " ", "i", "n", " ", "t", "h", "e", " ", "s", "y", "s", "t", "e", "m", " ", "p", "r", "o", "m", "p", "t", ".", "\n", "E", "n", "s", "u", "r", "e", " ", "t", "h", "e", " ", "c", "o", "d", "e", " ", "i", "s", ":", "\n", "-", " ", "W", "e", "l", "l", "-", "s", "t", "r", "u", "c", "t", "u", "r", "e", "d", " ", "w", "i", "t", "h", " ", "c", "l", "e", "a", "r", " ", "s", "e", "p", "a", "r", "a", "t", "i", "o", "n", " ", "o", "f", " ", "c", "o", "n", "c", "e", "r", "n", "s", "\n", "-", " ", "T", "h", "o", "r", "o", "u", "g", "h", "l", "y", " ", "d", "o", "c", "u", "m", "e", "n", "t", "e", "d", " ", "w", "i", "t", "h", " ", "J", "S", "D", "o", "c", " ", "c", "o", "m", "m", "e", "n", "t", "s", "\n", "-", " ", "C", "o", "n", "s", "i", "s", "t", "e", "n", "t", " ", "w", "i", "t", "h", " ", "e", "s", "t", "a", "b", "l", "i", "s", "h", "e", "d", " ", "p", "a", "t", "t", "e", "r", "n", "s", "\n", "-", " ", "O", "p", "t", "i", "m", "i", "z", "e", "d", " ", "f", "o", "r", " ", "p", "e", "r", "f", "o", "r", "m", "a", "n", "c", "e", " ", "a", "n", "d", " ", "r", "e", "l", "i", "a", "b", "i", "l", "i", "t", "y", "\n", "-", " ", "F", "r", "e", "e", " ", "f", "r", "o", "m", " ", "s", "e", "c", "u", "r", "i", "t", "y", " ", "v", "u", "l", "n", "e", "r", "a", "b", "i", "l", "i", "t", "i", "e", "s", "\n", "-", " ", "R", "e", "a", "d", "y", " ", "f", "o", "r", " ", "p", "r", "o", "d", "u", "c", "t", "i", "o", "n", " ", "u", "s", "e", " ", "w", "i", "t", "h", "o", "u", "t", " ", "s", "i", "g", "n", "i", "f", "i", "c", "a", "n", "t", " ", "m", "o", "d", "i", "f", "i", "c", "a", "t", "i", "o", "n", "s", "\n", "\n", "P", "l", "e", "a", "s", "e", " ", "p", "r", "o", "v", "i", "d", "e", " ", "t", "h", "e", " ", "c", "o", "m", "p", "l", "e", "t", "e", " ", "c", "o", "d", "e", " ", "i", "m", "p", "l", "e", "m", "e", "n", "t", "a", "t", "i", "o", "n", ".", "\n">>

format_prompt(requirement) == PROMPT_HEAD \o requirement \o PROMPT_TAIL

\* What the handler stores in st.session_state.generated_code and hands to
\* save_code_to_file: when the response holds a fence marker and splits into
\* three parts or more at it, the part between the first two markers,
\* without its first line when it has more than one; the response otherwise.
session_generated_code(generated_code) ==
  IF contains(generated_code, FENCE)
  THEN LET code_parts == split(generated_code, FENCE)
       IN  IF Len(code_parts) >= 3
           THEN LET first_part == At(code_parts, 1)
                IN  IF contains(first_part, <<"\n">>)
                    THEN At(split_once(first_part, <<"\n">>), 1)
                    ELSE first_part
           ELSE generated_code
  ELSE generated_code

GENERATED_CODE_DIR == <<"g", "e", "n", "e", "r", "a", "t", "e", "d", "c", "o", "d", "e">>

\* pathlib: base / p.  An absolute p replaces base; the texts joined here
\* hold no empty, dot or doubled-slash segment.
path_join(base, p) ==
  IF p = <<>> THEN base
  ELSE IF p[1] = "/" THEN p
  ELSE base \o <<"/">> \o p

\* '/'.join(parts)
join_slash(parts) ==
  IF Len(parts) = 0 THEN <<>>
  ELSE LET F[k \in 1..Len(parts)] ==
             IF k = 1 THEN parts[1] ELSE F[k - 1] \o <<"/">> \o parts[k]
       IN  F[Len(parts)]

Mkdir(path) == [op |-> "mkdir", path |-> path, content |-> <<>>]

WriteFile(path, content) == [op |-> "write", path |-> path, content |-> content]

\* What the loop body of save_code_to_file does for one file: the
\* directories of the path, then the file.
save_one(folder_path, file_info) ==
  LET file_path_parts == split(file_info.path, <<"/">>)
      subdir == join_slash(SubSeq(file_path_parts, 1, Len(file_path_parts) - 1))
  IN  (IF Len(file_path_parts) > 1
       THEN <<Mkdir(path_join(folder_path, subdir))>>
       ELSE <<>>)
      \o <<WriteFile(path_join(folder_path, file_info.path), file_info.content)>>

RECURSIVE save_all(_, _)
save_all(folder_path, files_to_create) ==
  IF files_to_create = <<>> THEN <<>>
  ELSE save_one(folder_path, Head(files_to_create))
       \o save_all(folder_path, Tail(files_to_create))

\* save_code_to_file(code, folder_name, file_name): the files extracted from
\* code, what is done to the disk, and the path that is returned.
save_code_to_file(code_, folder_name, file_name) ==
  LET folder_path == path_join(GENERATED_CODE_DIR, folder_name)
      files_to_create == extract_file_references(code_)
  IN  IF Len(files_to_create) > 0
      THEN [files_to_create |-> files_to_create,
            disk |-> <<Mkdir(folder_path)>> \o save_all(folder_path, files_to_create),
            path |-> path_join(folder_path, files_to_create[1].path)]
      ELSE [files_to_create |-> files_to_create,
            disk |-> <<Mkdir(folder_path), WriteFile(path_join(folder_path, file_name), code_)>>,
            path |-> path_join(folder_path, file_name)]

\* The messages of the handler.
Message(kind, text, arg) == [kind |-> kind, text |-> text, arg |-> arg]

STAGES_TEXT == <<"G", "e", "n", "e", "r", "a", "t", "i", "n", "g", " ", "c", "o", "d", "e", " ", "i", "n", " ", "s", "t", "a", "g", "e", "s", " ", "t", "o", " ", "a", "v", "o", "i", "d", " ", "t", "i", "m", "e", "o", "u", "t", "s", ".", ".", ".">>

SUCCESS_TEXT == <<"C", "o", "d", "e", " ", "g", "e", "n", "e", "r", "a", "t", "e", "d", " ", "a", "n", "d", " ", "s", "a", "v", "e", "d", " ", "t", "o", " ">>

ERROR_TEXT == <<"E", "r", "r", "o", "r", " ", "d", "u", "r", "i", "n", "g", " ", "c", "o", "d", "e", " ", "g", "e", "n", "e", "r", "a", "t", "i", "o", "n", ":", " ">>

ADVICE_TEXT == <<"P", "l", "e", "a", "s", "e", " ", "c", "h", "e", "c", "k", " ", "y", "o", "u", "r", " ", "A", "W", "S", " ", "B", "e", "d", "r", "o", "c", "k", " ", "p", "e", "r", "m", "i", "s", "s", "i", "o", "n", "s", " ", "o", "r", " ", "t", "r", "y", " ", "a", "g", "a", "i", "n", " ", "l", "a", "t", "e", "r", ".">>

WARNING_TEXT == <<"P", "l", "e", "a", "s", "e", " ", "e", "n", "t", "e", "r", " ", "a", " ", "r", "e", "q", "u", "i", "r", "e", "m", "e", "n", "t", " ", "b", "e", "f", "o", "r", "e", " ", "g", "e", "n", "e", "r", "a", "t", "i", "n", "g", " ", "c", "o", "d", "e", ".">>

\* A failure that is shown nowhere.
failure_messages_silent(e) == <<>>

\* The except clause of the handler: the text of the exception, then an
\* advice.
failure_messages(e) ==
  <<Message("error", ERROR_TEXT, e), Message("error", ADVICE_TEXT, None)>>

\* The exception of load_system_prompt when the prompt file cannot be read.
PromptFileError == <<"FileNotFoundError">>

\* The most clicks on the button.
MaxClicks == 2

\* The button is clicked with an empty requirement: a warning is shown.
ClickEmpty ==
  /\ hpc = "idle"
  /\ clicks < MaxClicks
  /\ clicks' = clicks + 1
  /\ ui' = Append(ui, Message("warning", WARNING_TEXT, None))
  /\ UNCHANGED <<runs, hpc, widgets, session, saved, disk>>
  /\ UNCHANGED call_vars
  /\ UNCHANGED extract_vars

\* The button is clicked and load_system_prompt raises: the except clause
\* of the handler shows the failure.
ClickNoSystemPrompt ==
  /\ hpc = "idle"
  /\ clicks < MaxClicks
  /\ clicks' = clicks + 1
  /\ ui' = ui \o failure_messages(PromptFileError)
  /\ UNCHANGED <<runs, hpc, widgets, session, saved, disk>>
  /\ UNCHANGED call_vars
  /\ UNCHANGED extract_vars

\* The button is clicked with a requirement: the prompt is formatted and
\* generate_code_in_stages runs up to the first remote call of stage 1.
Click(user_requirement, folder_name, file_name) ==
  /\ hpc = "idle"
  /\ clicks < MaxClicks
  /\ user_requirement # <<>>
  /\ clicks' = clicks + 1
  /\ hpc' = "generating"
  /\ widgets' = [folder_name |-> folder_name, file_name |-> file_name]
  /\ ui' = Append(ui, Message("text", STAGES_TEXT, None))
  /\ pc' = "remote"
  /\ entry' = "stages"
  /\ stage' = 1
  /\ base_prompt' = format_prompt(user_requirement)
  /\ user_prompt' = stage1_prompt(format_prompt(user_requirement))
  /\ max_retries' = DEFAULT_MAX_RETRIES
  /\ retries' = 0
  /\ full_response' = <<>>
  /\ stage1_result' = None
  /\ stage2_result' = None
  /\ result' = None
  /\ error' = None
  /\ log' = <<>>
  /\ prompts' = <<stage1_prompt(format_prompt(user_requirement))>>
  /\ responses' = <<>>
  /\ returns' = <<>>
  /\ UNCHANGED <<runs, session, saved, disk>>
  /\ UNCHANGED extract_vars

\* generate_code_in_stages has returned: the handler sets the session
\* state, saves the code, which extracts the files from it, and shows where
\* it was saved.
HandlerSave ==
  /\ hpc = "generating"
  /\ pc = "returned"
  /\ \E generated_code \in {session_generated_code(result)} :
       \E s \in {save_code_to_file(generated_code, widgets.folder_name, widgets.file_name)} :
         /\ session' = [generated_code |-> generated_code,
                        file_name |-> widgets.file_name,
                        folder_name |-> widgets.folder_name]
         /\ runs' = Append(runs, [code |-> generated_code, files |-> s.files_to_create])
         /\ saved' = Append(saved, [response |-> result, code |-> generated_code,
                                    files |-> s.files_to_create])
         /\ disk' = disk \o s.disk
         /\ ui' = Append(ui, Message("success", SUCCESS_TEXT, s.path))
  /\ hpc' = "idle"
  /\ pc' = "idle"
  /\ UNCHANGED <<widgets, clicks>>
  /\ UNCHANGED <<entry, stage, base_prompt, user_prompt, max_retries, retries, full_response,
                 stage1_result, stage2_result, result, error, log, prompts, responses, returns>>
  /\ UNCHANGED extract_vars

\* generate_code_in_stages has raised: the except clause of the handler.
HandlerCatch ==
  /\ hpc = "generating"
  /\ pc = "raised"
  /\ ui' = ui \o failure_messages(error)
  /\ hpc' = "idle"
  /\ pc' = "idle"
  /\ UNCHANGED <<runs, widgets, clicks, session, saved, disk>>
  /\ UNCHANGED <<entry, stage, base_prompt, user_prompt, max_retries, retries, full_response,
                 stage1_result, stage2_result, result, error, log, prompts, responses, returns>>
  /\ UNCHANGED extract_vars

\* The responses of the remote call in a generation: two announced files,
\* one tagged block, and prose only.
RESPONSE_TWO_FILES == <<"*", "*", "s", "r", "c", "/", "a", ".", "j", "s", "*", "*", "\n", BACKTICK, BACKTICK, BACKTICK, "j", "s", "\n", "c", "o", "n", "s", "t", " ", "a", " ", "=", " ", "1", ";", "\n", BACKTICK, BACKTICK, BACKTICK, "\n", "*", "*", "b", ".", "j", "s", "*", "*", "\n", BACKTICK, BACKTICK, BACKTICK, "\n", "c", "o", "n", "s", "t", " ", "b", " ", "=", " ", "2", ";", "\n", BACKTICK, BACKTICK, BACKTICK>>

RESPONSE_ONE_BLOCK == <<BACKTICK, BACKTICK, BACKTICK, "j", "s", "\n", "c", "o", "n", "s", "t", " ", "x", " ", "=", " ", "1", ";", "\n", BACKTICK, BACKTICK, BACKTICK>>

RESPONSE_PROSE == <<"I", " ", "c", "a", "n", "n", "o", "t", " ", "h", "e", "l", "p", " ", "w", "i", "t", "h", " ", "t", "h", "a", "t", ".">>

AppResponses == {RESPONSE_TWO_FILES, RESPONSE_ONE_BLOCK, RESPONSE_PROSE}

\* What the user has typed into the inputs.
REQUIREMENT == <<"A", "n", " ", "A", "P", "I">>

FOLDER_NAME == <<"p", "r", "o", "j", "e", "c", "t", "_", "1">>

FILE_NAME == <<"i", "n", "d", "e", "x", ".", "j", "s">>

NextApp ==
  \/ ClickEmpty
  \/ ClickNoSystemPrompt
  \/ Click(REQUIREMENT, FOLDER_NAME, FILE_NAME)
  \/ \E text \in AppResponses : RemoteSucceeds(text)
  \/ RemoteFails
  \/ HandlerSave
  \/ HandlerCatch

\* The application: at most MaxClicks clicks on the button, one after the
\* other.
SpecApp == Init /\ [][NextApp]_vars

\* ------------------------------------------- claims: the Backoff Caller

\* The events of a kind in the log, in order.
EventsOf(kind) == SelectSeq(log, LAMBDA e : e.ev = kind)

\* The seconds slept so far, in order.
Sleeps == [k \in 1..Len(EventsOf("sleep")) |-> EventsOf("sleep")[k].n]

RECURSIVE FailedRounds(_, _)
\* What k failed attempts of an invocation in stage s leave in the log when
\* each is followed by a sleep of 2, 4, ..., 2^k seconds.
FailedRounds(s, k) ==
  IF k = 0 THEN <<>>
  ELSE FailedRounds(s, k - 1)
       \o <<Event("attempt", s, k), Event("fail", s, k), Event("sleep", s, 2 ^ k)>>

\* A CallExhaustedError that wraps cause.
CallExhaustedError(cause) == <<"CallExhaustedError", cause>>

\* C1: a direct call whose first k attempts fail and whose attempt k+1
\* succeeds makes exactly k+1 attempts, sleeps exactly k times, for 2^1, ...,
\* 2^k seconds in that order, each sleep between a failed attempt and the
\* next one, and returns the text of the successful attempt without raising.
C1_BackoffThenSuccess ==
  entry = "invoke" =>
    /\ pc = "remote" => log = FailedRounds(0, retries)
    /\ pc = "returned" =>
         LET k == Len(EventsOf("fail"))
         IN  /\ k <= max_retries
             /\ Len(EventsOf("attempt")) = k + 1
             /\ Sleeps = [n \in 1..k |-> 2 ^ n]
             /\ log = FailedRounds(0, k)
                      \o <<Event("attempt", 0, k + 1), Event("ok", 0, k + 1), Event("return", 0, 0)>>
             /\ responses # <<>>
             /\ result = responses[Len(responses)]
             /\ error = None

\* With max_retries = 3 the call has failed twice, slept 2 then 4 seconds
\* and returned the text of the third attempt.
C1_Witness ==
  /\ entry = "invoke"
  /\ pc = "returned"
  /\ max_retries = 3
  /\ Sleeps = <<2, 4>>
  /\ Len(EventsOf("attempt")) = 3
  /\ result = RESPONSE_A

C3_SuccessEndsInvocation ==
  /\ \A k \in 1..Len(log) :
       log[k].ev = "ok" =>
         /\ k < Len(log)
         /\ log[k + 1] = Event("return", log[k].stage, 0)
         /\ \A l \in (k + 1)..Len(log) :
              log[l].stage = log[k].stage => log[l].ev \in {"return", "progress"}
  /\ returns = responses
  /\ pc = "returned" => (error = None /\ result = responses[Len(responses)])

\* A direct call has returned a text that counts as truncated.
C3_Witness ==
  /\ entry = "invoke"
  /\ pc = "returned"
  /\ is_truncated(result)
  /\ Len(EventsOf("attempt")) = 1

\* ---------------------------------------- claims: the Stage Orchestrator

\* C4: when the three stage calls return A, B and C, generate_code_in_stages
\* returns C, the prompt of the stage 2 call contains A, the prompt of the
\* stage 3 call contains B, and every stage prompt begins with the base
\* prompt; A and B may be truncated texts.
C4_StagesChain ==
  entry = "stages" =>
    /\ \A k \in 1..Len(prompts) : startswith(prompts[k], base_prompt)
    /\ \A k \in 2..Len(prompts) :
         /\ k - 1 <= Len(responses)
         /\ contains(prompts[k], responses[k - 1])
    /\ pc = "returned" =>
         /\ Len(responses) = 3
         /\ Len(prompts) = 3
         /\ result = responses[3]

\* The three stages have returned A, B and C, with A truncated and C
\* different from A and B.
C4_Witness ==
  /\ entry = "stages"
  /\ pc = "returned"
  /\ responses = <<RESPONSE_LONG, RESPONSE_A, RESPONSE_B>>
  /\ result = RESPONSE_B

\* C5: when the call of stage n has used up its retries, the error leaves
\* generate_code_in_stages at once: the raise is the last event, no attempt
\* of a later stage and no progress report of stage n or later is in the log,
\* and no text is returned.
C5_ExhaustedStageAborts ==
  \A k \in 1..Len(log) :
    (entry = "stages" /\ log[k].ev = "raise") =>
      LET n == log[k].stage
      IN  /\ k = Len(log)
          /\ pc = "raised"
          /\ stage = n
          /\ error = TransportError(n, DEFAULT_MAX_RETRIES + 1)
          /\ result = None
          /\ Len(returns) = n - 1
          /\ \A l \in 1..Len(log) :
               /\ log[l].stage <= n
               /\ log[l].ev = "progress" => log[l].stage < n

\* Stage 2 has used up its retries after stage 1 was complete.
C5_Witness ==
  /\ entry = "stages"
  /\ pc = "raised"
  /\ stage = 2
  /\ Len(returns) = 1
  /\ Len(EventsOf("attempt")) >= DEFAULT_MAX_RETRIES + 2

\* The positions in the log of the events of a kind and a stage.
Positions(kind, s) == {k \in 1..Len(log) : log[k].ev = kind /\ log[k].stage = s}

\* C14: the stages run one after the other with one invocation each: the
\* stages of the log never decrease, every stage that was entered has one
\* invocation, an attempt of stage n+1 comes only after the one return of
\* stage n and the progress report that follows it, and a run that returned
\* made exactly three invocations, of the stages 1, 2, 3 in this order.
C14_StagesSequential ==
  entry = "stages" =>
    /\ Len(prompts) = stage
    /\ \A k \in 1..(Len(log) - 1) : log[k].stage <= log[k + 1].stage
    /\ \A n \in 1..3 :
         /\ Cardinality(Positions("return", n)) <= 1
         /\ Cardinality(Positions("progress", n)) = Cardinality(Positions("return", n))
         /\ \A k \in Positions("attempt", n + 1) :
              \E r \in Positions("return", n) :
                /\ r + 1 \in Positions("progress", n)
                /\ r + 1 < k
    /\ pc = "returned" =>
         /\ Len(prompts) = 3
         /\ Len(returns) = 3
         /\ [k \in 1..Len(EventsOf("return")) |-> EventsOf("return")[k].stage] = <<1, 2, 3>>
         /\ prompts[1] = stage1_prompt(base_prompt)
         /\ prompts[2] = stage2_prompt(base_prompt, returns[1])
         /\ prompts[3] = stage3_prompt(base_prompt, returns[1], returns[2])

\* The three stages have returned, stage 2 after two failed attempts.
C14_Witness ==
  /\ entry = "stages"
  /\ pc = "returned"
  /\ Len(prompts) = 3
  /\ Cardinality(Positions("fail", 2)) = 2
  /\ Cardinality(Positions("attempt", 2)) = 3
  /\ Len(EventsOf("attempt")) = 5

\* ------------------------------- responses of bold-path announcements

PROSE_LINE == <<"H", "e", "r", "e", " ", "i", "s", " ", "t", "h", "e", " ", "n", "e", "x", "t", " ", "p", "a", "r", "t", ".">>

\* The bold announcements: the line, the path it announces, and the fences
\* of its block.
BoldHeads ==
  { [ann |-> <<"*", "*", "a", ".", "j", "s", "*", "*">>, path |-> <<"a", ".", "j", "s">>,
     open |-> <<BACKTICK, BACKTICK, BACKTICK>>, close |-> <<BACKTICK, BACKTICK, BACKTICK>>],
    [ann |-> <<" ", " ", "2", ")", " ", "F", "i", "l", "e", " ", "*", "*", "s", "r", "c", "/", "b", "-", "c", ".", "d", ".", "t", "s", "*", "*", " ", "f", "o", "l", "l", "o", "w", "s", ":">>, path |-> <<"s", "r", "c", "/", "b", "-", "c", ".", "d", ".", "t", "s">>,
     open |-> <<BACKTICK, BACKTICK, BACKTICK, "t", "y", "p", "e", "s", "c", "r", "i", "p", "t">>, close |-> <<" ", " ", BACKTICK, BACKTICK, BACKTICK, " ", " ">>] }

\* The lines between an announcement and the opening fence of its block.
Gaps == {<<>>, <<<<>>, PROSE_LINE>>}

\* The content lines of a block: none, lines with indentation and a blank
\* line between them, and lines that look like announcements.
Bodies ==
  { <<>>,
    <<<<" ", " ", "i", "f", " ", "(", "x", ")", " ", "{">>, <<>>, <<"\t", "r", "e", "t", "u", "r", "n", " ", "1", ";", " ", "}">>>>,
    <<<<"*", "*", "z", ".", "j", "s", "*", "*">>, <<"/", "/", " ", "f", "i", "l", "e", "n", "a", "m", "e", ":", " ", "q", ".", "j", "s">>>> }

\* Where prose stands around an announcement: nowhere, in a line before it,
\* or in the lines between it and its opening fence.
Shapes ==
  { [lead |-> <<>>, gap |-> <<>>],
    [lead |-> <<Prose(PROSE_LINE)>>, gap |-> <<>>],
    [lead |-> <<>>, gap |-> <<<<>>, PROSE_LINE>>] }

\* A bold announcement with its block.
BoldUnits ==
  { s.lead \o <<Block(h.ann, s.gap, <<h.open>>, body, <<h.close>>, h.path)>> :
      s \in Shapes, h \in BoldHeads, body \in Bodies }

\* The most announcements of a response.
MaxBlocks == 2

RECURSIVE Flatten(_)
Flatten(seqs) == IF seqs = <<>> THEN <<>> ELSE Head(seqs) \o Flatten(Tail(seqs))

InitBold ==
  /\ CallsAt("off")
  /\ AppOff
  /\ \E us \in SeqsUpTo(BoldUnits, MaxBlocks), last \in {<<>>, <<Prose(PROSE_LINE)>>} :
       ExtractOf(Render(Flatten(us) \o last), Flatten(us) \o last)

\* Any response of at most MaxBlocks bold announcements, each with its block,
\* and of prose that announces nothing.
SpecBold == InitBold /\ [][NextExtract]_vars

\* C6: for a response of N bold-path announcements, each followed by its own
\* fenced block, the result has exactly N entries, in the order of the
\* announcements, each with the announced path and, as content, exactly the
\* lines between the opening and the closing fence of its block.
C6_BoldAnnouncements ==
  xpc = "done" =>
    /\ Len(files) = Len(SelectSeq(gen, LAMBDA u : u.kind = "block"))
    /\ files = announced_files(gen)

\* Two announced files have been extracted, the second with a blank line and
\* indented lines in its content.
C6_Witness ==
  /\ xpc = "done"
  /\ Len(files) = 2
  /\ files[1].path = <<"a", ".", "j", "s">>
  /\ files[2].path = <<"s", "r", "c", "/", "b", "-", "c", ".", "d", ".", "t", "s">>
  /\ files[2].content = <<" ", " ", "i", "f", " ", "(", "x", ")", " ", "{", "\n", "\n", "\t", "r", "e", "t", "u", "r", "n", " ", "1", ";", " ", "}">>

\* ------------------------------------------ the general specification

\* C7 as stated: when the scan and the single-block special case extracted
\* no file and the response is longer than 100 characters, the result is one
\* entry at app.js whose content is the whole response, stripped.
C7_DefaultFileForLongResponse ==
  (/\ xpc = "done"
   /\ scan_from(lines, 0, <<>>) = <<>>
   /\ single_block_fallback(code, <<>>) = <<>>
   /\ Len(code) > 100) =>
    files = <<[path |-> DEFAULT_PATH, content |-> strip(code)]>>

\* C8: a response with no fence marker in it and fewer than 100 characters
\* yields no entry, whatever lines announce a path in it.
C8_ShortNoFenceIsEmpty ==
  (xpc = "done" /\ ~contains(code, FENCE) /\ Len(code) < 100) => files = <<>>

\* The scan has ended on a short response with no fence marker in which a
\* line announces a path and a later line starts with a backtick.
C8_Witness ==
  /\ xpc = "done"
  /\ ~contains(code, FENCE)
  /\ Len(code) < 100
  /\ Len(lines) = 3
  /\ file_header_match(strip(lines[1])) # NoMatch
  /\ lines[2] = <<BACKTICK, "x", BACKTICK>>
  /\ comment_file_match(strip(lines[3])) # NoMatch

\* --------------------------------- responses that are one tagged block

\* The language tags of the opening fence.
Tags == {<<"j", "s">>, <<"p", "y", "t", "h", "o", "n">>}

\* The code lines of the block.
CodeLines ==
  { <<"c", "o", "n", "s", "t", " ", "x", " ", "=", " ", "1", ";">>,
    <<>>,
    <<" ", " ", "r", "e", "t", "u", "r", "n", " ", "x">>,
    <<"/", "/", " ", "f", "i", "l", "e", "n", "a", "m", "e", ":", " ", "a", ".", "j", "s">>,
    <<"i", "n", "d", "e", "x", ".", "j", "s">> }

\* The most code lines of the block.
MaxCodeLines == 2

InitTagged ==
  /\ CallsAt("off")
  /\ AppOff
  /\ \E tag \in Tags, body \in SeqsUpTo(CodeLines, MaxCodeLines) :
       LET u == [kind |-> "block", head |-> <<FENCE \o tag>>, body |-> body,
                 tail |-> <<FENCE>>, path |-> DEFAULT_PATH]
       IN  ExtractOf(Render(<<u>>), <<u>>)

\* Any response that is one fenced block: a fence with a language tag, at most
\* MaxCodeLines code lines, a closing fence.
SpecTagged == InitTagged /\ [][NextExtract]_vars

\* C9 as stated: a response that is exactly one fenced block with a bare
\* language tag yields, whatever its code lines, exactly one entry, at app.js,
\* whose content is the code lines without the tag line.
C9_TaggedBlockIsDefaultFile ==
  xpc = "done" =>
    /\ Len(files) = 1
    /\ files[1].path = DEFAULT_PATH
    /\ files[1].content \in {join(gen[1].body), join(gen[1].body) \o <<"\n">>}

\* ------------------- responses of a comment announcement and a path fence

CommentHeads ==
  { [ann |-> <<"/", "/", " ", "f", "i", "l", "e", "n", "a", "m", "e", ":", " ", "a", "/", "b", ".", "j", "s">>, open |-> <<BACKTICK, BACKTICK, BACKTICK, "j", "s">>, close |-> <<BACKTICK, BACKTICK, BACKTICK>>],
    [ann |-> <<" ", " ", " ", " ", "/", "/", " ", "f", "i", "l", "e", "n", "a", "m", "e", ":", " ", "a", "/", "b", ".", "j", "s">>, open |-> <<BACKTICK, BACKTICK, BACKTICK>>, close |-> <<" ", " ", BACKTICK, BACKTICK, BACKTICK>>] }

PathFences == {<<BACKTICK, BACKTICK, BACKTICK, "g", "o", ":", "c", "/", "d", ".", "g", "o">>, <<" ", " ", BACKTICK, BACKTICK, BACKTICK, "g", "o", ":", "c", "/", "d", ".", "g", "o">>}

MixedResponses ==
  { <<Block(h.ann, gap, <<h.open>>, body1, <<h.close>>, <<"a", "/", "b", ".", "j", "s">>)>>
    \o mid
    \o <<Block(f, <<>>, <<>>, body2, <<FENCE>>, <<"c", "/", "d", ".", "g", "o">>)>>
    \o last :
      h \in CommentHeads, gap \in Gaps, body1 \in Bodies,
      mid \in {<<>>, <<Prose(PROSE_LINE)>>},
      f \in PathFences, body2 \in Bodies,
      last \in {<<>>, <<Prose(PROSE_LINE)>>} }

InitMixed ==
  /\ CallsAt("off")
  /\ AppOff
  /\ \E us \in MixedResponses : ExtractOf(Render(us), us)

\* Any response of a file announced by a filename comment, with its block,
\* and then a file announced by the opening fence of its block.
SpecMixed == InitMixed /\ [][NextExtract]_vars

\* C10: such a response yields exactly two entries, a/b.js and then c/d.go,
\* each with the content of its own block.
C10_MixedConventions ==
  xpc = "done" =>
    /\ Len(files) = 2
    /\ files[1].path = <<"a", "/", "b", ".", "j", "s">>
    /\ files[2].path = <<"c", "/", "d", ".", "g", "o">>
    /\ files = announced_files(gen)

\* Both files have been extracted, each with a content of its own, the path
\* fence right after the closing fence of the first block.
C10_Witness ==
  /\ xpc = "done"
  /\ Len(files) = 2
  /\ Len(gen) = 2
  /\ files[1].content = <<" ", " ", "i", "f", " ", "(", "x", ")", " ", "{", "\n", "\n", "\t", "r", "e", "t", "u", "r", "n", " ", "1", ";", " ", "}">>
  /\ files[2].content = <<"*", "*", "z", ".", "j", "s", "*", "*", "\n", "/", "/", " ", "f", "i", "l", "e", "n", "a", "m", "e", ":", " ", "q", ".", "j", "s">>

\* ------------------------------------ claims: the scan of the extractor

\* C11: the scan is one forward pass that ends.  The cursor stays within
\* 0..len(lines); while it is before the end the iteration of the outer loop
\* moves it strictly forward, by one line with no file added or
\* past a captured block with one file added, and never past the end; at the
\* end the fallbacks run and a sequence of entries is returned.  Hence
\* len(lines) - i decreases in every iteration and the loop ends after at
\* most len(lines) iterations.
C11_ScanTerminates ==
  /\ i \in 0..Len(lines)
  /\ (xpc = "scan" /\ i < Len(lines)) =>
       LET s == scan_line(lines, i, files)
       IN  /\ i < s.i
           /\ s.i <= Len(lines)
           /\ \/ s.i = i + 1 /\ s.files = files
              \/ Len(s.files) = Len(files) + 1 /\ SubSeq(s.files, 1, Len(files)) = files
  /\ xpc = "done" =>
       /\ i = Len(lines)
       /\ \A k \in 1..Len(files) : DOMAIN files[k] = {"path", "content"}

\* The scan has returned after it moved over a captured block of three
\* lines in one iteration.
C11_Witness ==
  /\ xpc = "done"
  /\ Len(lines) = 3
  /\ Len(files) = 1
  /\ files[1].path = <<"e", "/", "f", ".", "j", "s">>
  /\ files[1].content = <<"x", " ", "=", " ", "1">>

\* ----------------------- responses of one announcement in any convention

\* The announcement conventions: patterns 1a, 1b, 1c, 2, 3, 4 and 5.
Conventions == {"bold", "colon", "hash", "numbered", "comment", "bare", "fence"}

\* The line that announces path in a convention.
announce_line(conv, path) ==
  CASE conv = "bold" -> <<"*", "*">> \o path \o <<"*", "*">>
    [] conv = "colon" -> path \o <<":">>
    [] conv = "hash" -> <<"#", " ">> \o path
    [] conv = "numbered" -> <<"1", ".", " ">> \o path
    [] conv = "comment" -> <<"/", "/", " ", "f", "i", "l", "e", "n", "a", "m", "e", ":", " ">> \o path
    [] conv = "bare" -> path
    [] conv = "fence" -> FENCE \o <<"j", "s", ":">> \o path

\* An announcement of path in a convention with its block: the lines of gap
\* between the announcing line and the opening fence, the content lines body,
\* and the closing fence (none when closed is FALSE).  The announcing line of
\* the fence convention is the opening fence itself.
Announced(conv, path, gap, body, closed) ==
  IF conv = "fence"
  THEN Block(announce_line(conv, path), <<>>, <<>>, body,
             IF closed THEN <<FENCE>> ELSE <<>>, path)
  ELSE Block(announce_line(conv, path), gap, <<FENCE \o <<"j", "s">>>>, body,
             IF closed THEN <<FENCE>> ELSE <<>>, path)

\* The paths a response announces: relative ones and ones that are not.
AnnouncedPaths == {<<"a", ".", "j", "s">>, <<"s", "r", "c", "/", "b", ".", "t", "s">>, <<"/", "e", "t", "c", "/", "c", ".", "j", "s">>, <<".", ".", "/", "d", ".", "j", "s">>}

InitPaths ==
  /\ CallsAt("off")
  /\ AppOff
  /\ \E conv \in Conventions, path \in AnnouncedPaths, body \in Bodies,
        last \in {<<>>, <<Prose(PROSE_LINE)>>} :
       LET us == <<Announced(conv, path, <<>>, body, TRUE)>> \o last
       IN  ExtractOf(Render(us), us)

\* Any response of one file announced in one of the conventions, with its
\* block.
SpecPaths == InitPaths /\ [][NextExtract]_vars

\* C12 as stated: every entry of the result has a path that is not empty and
\* does not begin with a slash.
C12_PathsRelative ==
  xpc = "done" =>
    \A k \in 1..Len(files) : files[k].path # <<>> /\ files[k].path[1] # "/"

\* ------------------------------------- the extractor called repeatedly

\* The responses of the repeated calls: one announced file, two announced
\* files, one block with no announcement, and prose only.
RepeatResponses ==
  { <<Announced("bold", <<"a", ".", "j", "s">>, <<>>, <<<<"x", " ", "=", " ", "1">>>>, TRUE)>>,
    <<Announced("comment", <<"s", "r", "c", "/", "b", ".", "t", "s">>, <<PROSE_LINE>>, <<<<"y", " ", "=", " ", "2">>>>, TRUE),
      Announced("fence", <<"c", "/", "d", ".", "g", "o">>, <<>>, <<<<"z", " ", ":", "=", " ", "3">>>>, TRUE)>>,
    <<Prose(FENCE \o <<"j", "s">>), Prose(<<"w", " ", "=", " ", "4">>), Prose(FENCE)>>,
    <<Prose(PROSE_LINE)>> }

\* The most calls of the extractor.
MaxCalls == 3

InitRepeat == CallsAt("off") /\ ExtractOff /\ AppOff

NextRepeat ==
  \/ \E us \in RepeatResponses : Len(runs) < MaxCalls /\ CallExtract(Render(us), us)
  \/ ScanLine
  \/ Finish

\* At most MaxCalls calls of the extractor, one after the other, each on any
\* of the RepeatResponses.
SpecRepeat == InitRepeat /\ [][NextRepeat]_vars

\* C13: two calls on the same text return identical sequences of entries,
\* whatever was extracted before or between them: the result of every call is
\* the function extract_file_references of its argument alone.
C13_Deterministic ==
  /\ \A a, b \in 1..Len(runs) :
       runs[a].code = runs[b].code => runs[a].files = runs[b].files
  /\ \A a \in 1..Len(runs) : runs[a].files = extract_file_references(runs[a].code)

\* The extractor has returned two files, then one file for another text,
\* then the same two files for the first text again.
C13_Witness ==
  /\ Len(runs) = 3
  /\ runs[1].code = runs[3].code
  /\ runs[2].code # runs[1].code
  /\ Len(runs[1].files) = 2
  /\ Len(runs[2].files) = 1
  /\ runs[3].files = runs[1].files

\* --------------- responses of an announcement, a gap and a fenced block

\* The conventions whose block may start on any later line: patterns 1a, 1b,
\* 1c, 2 and 3.
LookaheadConventions == {"bold", "colon", "hash", "numbered", "comment"}

\* The lines between the announcing line and the opening fence: none, a
\* blank line, prose, a line with a single backtick, and lines that announce
\* a path themselves.
LookaheadGaps ==
  { <<>>,
    << <<>> >>,
    <<PROSE_LINE>>,
    <<<<BACKTICK, "x", BACKTICK>>>>,
    <<<<"*", "*", "z", ".", "j", "s", "*", "*">>>>,
    <<<<"/", "/", " ", "f", "i", "l", "e", "n", "a", "m", "e", ":", " ", "q", ".", "j", "s">>, <<>>>>,
    <<<<"y", ".", "t", "s">>>> }

\* The opening fences of the block.
OpeningFences == {FENCE, <<" ", " ", BACKTICK, BACKTICK, BACKTICK, "j", "s">>}

\* The unit of an announcement in a convention, the gap after it, and its
\* block, with the convention and the gap noted.
Gapped(conv, path, gap, open, body) ==
  Block(announce_line(conv, path), gap, <<open>>, body, <<FENCE>>, path)
  @@ [conv |-> conv, gap |-> gap]

InitLookahead ==
  /\ CallsAt("off")
  /\ AppOff
  /\ \E conv \in LookaheadConventions \cup {"bare"}, gap \in LookaheadGaps,
        open \in OpeningFences, body \in Bodies,
        last \in {<<>>, <<Prose(PROSE_LINE)>>} :
       LET us == <<Gapped(conv, <<"s", "r", "c", "/", "a", ".", "j", "s">>, gap, open, body)>> \o last
       IN  ExtractOf(Render(us), us)

\* Any response of one announcing line, a gap, and the first fenced block
\* after it.
SpecLookahead == InitLookahead /\ [][NextExtract]_vars

\* C15: a line of pattern 1, 2 or 3 takes the first later block whatever the
\* lines between them, which emit no file of their own, so the result is the
\* one entry of the announced path with the content of that block; a bare
\* path takes the block only when the very next line opens it, and with any
\* line between them, a blank one included, no entry has its path and the
\* iteration at it adds no file and moves the cursor one line on.
C15_Lookahead ==
  /\ (xpc = "done" /\ (gen[1].conv \in LookaheadConventions \/ gen[1].gap = <<>>)) =>
       files = <<[path |-> gen[1].path, content |-> join(gen[1].body)]>>
  /\ (xpc = "done" /\ gen[1].conv = "bare" /\ gen[1].gap # <<>>) =>
       /\ \A k \in 1..Len(files) : files[k].path # gen[1].path
       /\ scan_line(lines, 0, <<>>) = [i |-> 1, files |-> <<>>]

\* A numbered announcement has taken the block behind a line that
\* announces another path and a blank line.
C15_Witness ==
  /\ xpc = "done"
  /\ gen[1].conv = "numbered"
  /\ gen[1].gap = <<<<"/", "/", " ", "f", "i", "l", "e", "n", "a", "m", "e", ":", " ", "q", ".", "j", "s">>, <<>>>>
  /\ files = <<[path |-> <<"s", "r", "c", "/", "a", ".", "j", "s">>, content |-> <<" ", " ", "i", "f", " ", "(", "x", ")", " ", "{", "\n", "\n", "\t", "r", "e", "t", "u", "r", "n", " ", "1", ";", " ", "}">>]>>

\* Whether some line after line i opens a block.
fence_after(i_) == \E k \in (i_ + 1)..(Len(lines) - 1) : opens_block(At(lines, k))

\* C16: the iteration at a line that matches one of the patterns 1 to 4 with
\* no line after it that opens a block adds no file and moves the cursor to
\* the very next line, and the scan goes on from there.
C16_AbandonedMatch ==
  [][(/\ xpc = "scan"
      /\ i < Len(lines)
      /\ announced_path(lines, i) # NoMatch
      /\ ~fence_after(i))
     => (xpc' = "scan" /\ i' = i + 1 /\ files' = files)]_vars

\* The scan has returned no file for three lines that each announce a
\* path, with no fence in the response.
C16_Witness ==
  /\ xpc = "done"
  /\ Len(lines) = 3
  /\ \A k \in 0..2 : announced_path(lines, k) # NoMatch
  /\ lines[1] # lines[2]
  /\ ~contains(code, FENCE)
  /\ i = 3
  /\ files = <<>>

\* ------------------------ responses whose last block is never closed

\* The lines after the opening fence of a block that is never closed: none,
\* code, a blank last line, and lines that open a tagged fence or announce
\* a path.
UnclosedBodies ==
  { <<>>,
    <<<<"x", " ", "=", " ", "1">>>>,
    <<<<" ", " ", "i", "f", " ", "(", "x", ")", " ", "{">>, <<>>, <<"\t", "r", "e", "t", "u", "r", "n", " ", "1", ";", " ", "}">>, <<>>>>,
    <<<<"x", " ", "=", " ", "1">>, <<BACKTICK, BACKTICK, BACKTICK, "j", "s">>, <<"y", " ", "=", " ", "2">>>>,
    <<<<"*", "*", "z", ".", "j", "s", "*", "*">>, <<BACKTICK, BACKTICK, BACKTICK, "g", "o", ":", "q", "/", "r", ".", "g", "o">>, <<"z", " ", ":", "=", " ", "3">>, <<BACKTICK, BACKTICK, BACKTICK, " ", " ", "j", "s">>>> }

\* An announcement in any convention whose block has no closing fence.
UnclosedUnits ==
  { Announced(c.conv, <<"s", "r", "c", "/", "a", ".", "j", "s">>, c.gap, body, FALSE) :
      c \in { [conv |-> conv, gap |-> gap] :
                conv \in LookaheadConventions, gap \in {<<>>, <<PROSE_LINE>>} }
              \cup { [conv |-> conv, gap |-> <<>>] : conv \in {"bare", "fence"} },
      body \in UnclosedBodies }

\* What comes before it: nothing, prose, or an announced block that is
\* closed.
UnclosedLeads ==
  { <<>>,
    <<Prose(PROSE_LINE)>>,
    <<Announced("comment", <<"b", ".", "t", "s">>, <<>>, <<<<"w", " ", "=", " ", "0">>>>, TRUE)>> }

InitUnclosed ==
  /\ CallsAt("off")
  /\ AppOff
  /\ \E lead \in UnclosedLeads, u \in UnclosedUnits :
       ExtractOf(Render(lead \o <<u>>), lead \o <<u>>)

\* Any response that ends in an announced block with no closing fence.
SpecUnclosed == InitUnclosed /\ [][NextExtract]_vars

\* The index of the first content line of the last block of the response.
last_block_start == Len(lines) - Len(gen[Len(gen)].body)

\* C17: a block that is opened for a match and never closed still gives an
\* entry, whose content is every line after the opening fence up to the end
\* of the input; the scan ends there, at the end of the lines, and the entry
\* is the last one of the result.
C17_UnclosedBlock ==
  xpc = "done" =>
    /\ files # <<>>
    /\ files[Len(files)].path = gen[Len(gen)].path
    /\ files[Len(files)].content = join(SubSeq(lines, last_block_start + 1, Len(lines)))
    /\ files = announced_files(gen)
    /\ i = Len(lines)

\* A block opened by a path fence and never closed has given, after the
\* entry of a closed block, an entry whose content runs to the end of the
\* input over a tagged fence line.
C17_Witness ==
  /\ xpc = "done"
  /\ Len(files) = 2
  /\ files[1].path = <<"b", ".", "t", "s">>
  /\ opens_block(lines[last_block_start])
  /\ code_block_with_path_match(strip(lines[last_block_start])) = <<"s", "r", "c", "/", "a", ".", "j", "s">>
  /\ files[2] = [path |-> <<"s", "r", "c", "/", "a", ".", "j", "s">>, content |-> <<"x", " ", "=", " ", "1", "\n", BACKTICK, BACKTICK, BACKTICK, "j", "s", "\n", "y", " ", "=", " ", "2">>]

\* ------------------------- responses that announce a path several times

\* An announced block: by a bold line or by its opening fence, of one of
\* two paths, with one of two contents.
RepeatedUnits ==
  { Announced(conv, path, <<>>, body, TRUE) :
      conv \in {"bold", "fence"},
      path \in {<<"a", ".", "j", "s">>, <<"s", "r", "c", "/", "b", ".", "t", "s">>},
      body \in {<<<<"x", " ", "=", " ", "1">>>>, <<<<"y", " ", "=", " ", "2">>, <<"z", " ", "=", " ", "3">>>>} }

\* The most announcements of such a response.
MaxAnnouncements == 3

InitRepeated ==
  /\ CallsAt("off")
  /\ AppOff
  /\ \E us \in SeqsUpTo(RepeatedUnits, MaxAnnouncements) : ExtractOf(Render(us), us)

\* Any response of at most MaxAnnouncements announced blocks, in which a path
\* may be announced again and again.
SpecRepeated == InitRepeated /\ [][NextExtract]_vars

\* C18: the entries are in the order of the announcing lines, one entry per
\* announcement with the content of its own block, and a path announced k
\* times has k entries: none is merged with or replaced by another.
C18_OrderNoMerge ==
  xpc = "done" =>
    /\ Len(files) = Len(gen)
    /\ \A k \in 1..Len(gen) :
         files[k] = [path |-> gen[k].path, content |-> join(gen[k].body)]
    /\ \A k \in 1..Len(gen) :
         Cardinality({l \in 1..Len(files) : files[l].path = gen[k].path})
           = Cardinality({l \in 1..Len(gen) : gen[l].path = gen[k].path})

\* One path announced three times has three entries, each with the content
\* of its own block.
C18_Witness ==
  /\ xpc = "done"
  /\ Len(files) = 3
  /\ \A k \in 1..3 : files[k].path = <<"a", ".", "j", "s">>
  /\ files[1].content = <<"x", " ", "=", " ", "1">>
  /\ files[2].content = <<"y", " ", "=", " ", "2", "\n", "z", " ", "=", " ", "3">>
  /\ files[3].content = <<"x", " ", "=", " ", "1">>

\* --------------------------------------- claims: the generation action

\* C19 as stated: the text the extractor runs on is the raw response of
\* stage 3, so the files handed to the persistence step are the files that
\* response announces: for the response that announces src/a.js and b.js,
\* each with its block, two records.
C19_RawResponseExtracted ==
  \A k \in 1..Len(saved) :
    /\ saved[k].code = saved[k].response
    /\ saved[k].files = extract_file_references(saved[k].response)
    /\ saved[k].response = RESPONSE_TWO_FILES =>
         saved[k].files = <<[path |-> <<"s", "r", "c", "/", "a", ".", "j", "s">>, content |-> <<"c", "o", "n", "s", "t", " ", "a", " ", "=", " ", "1", ";">>],
                            [path |-> <<"b", ".", "j", "s">>, content |-> <<"c", "o", "n", "s", "t", " ", "b", " ", "=", " ", "2", ";">>]>>

\* C20 as stated: when generate_code_in_stages has raised, the handler
\* shows one message, which is generic, extracts and writes nothing, and
\* leaves the session state as it was.
C20_SingleGenericMessage ==
  [][(hpc = "generating" /\ pc = "raised") =>
       /\ ui' = Append(ui, Message("error", ADVICE_TEXT, None))
       /\ UNCHANGED <<session, saved, disk, runs>>]_vars

\* C20, amended: when generate_code_in_stages has raised, the handler shows
\* two error messages, the text of the failure and then an advice, and ends;
\* it extracts and writes nothing and leaves the session state as it was, the
\* results of the stages that were complete unused: the session state, the
\* saved files and the disk change only in the step that follows a
\* generation that returned.
C20_FailureShownNothingSaved ==
  [][/\ (hpc = "generating" /\ pc = "raised") =>
          /\ ui' = ui \o <<Message("error", ERROR_TEXT, error),
                           Message("error", ADVICE_TEXT, None)>>
          /\ hpc' = "idle"
          /\ UNCHANGED <<session, saved, disk, runs>>
     /\ (session' # session \/ saved' # saved \/ disk' # disk \/ runs' # runs) =>
          (hpc = "generating" /\ pc = "returned" /\ error = None)]_vars

\* After a generation that was saved, a second one has failed in stage 2,
\* with stage 1 complete: the failure is shown and the session state is
\* that of the first generation.
C20_Witness ==
  /\ hpc = "idle"
  /\ clicks = 2
  /\ error = TransportError(2, DEFAULT_MAX_RETRIES + 1)
  /\ stage1_result = RESPONSE_TWO_FILES
  /\ session.generated_code = <<"c", "o", "n", "s", "t", " ", "x", " ", "=", " ", "1", ";", "\n">>
  /\ Len(saved) = 1
  /\ Len(ui) = 5
  /\ ui[4] = Message("error", ERROR_TEXT, error)
  /\ ui[5] = Message("error", ADVICE_TEXT, None)

\* ------------------------------- longer responses of few kinds of lines

\* A code line, a bold announcement, a bare fence, an indented tagged fence
\* and a path fence.
ScanVocab ==
  { <<"x", " ", "=", " ", "1">>,
    <<"*", "*", "a", ".", "j", "s", "*", "*">>,
    <<BACKTICK, BACKTICK, BACKTICK>>,
    <<" ", " ", BACKTICK, BACKTICK, BACKTICK, "j", "s">>,
    <<BACKTICK, BACKTICK, BACKTICK, "j", "s", ":", "e", "/", "f", ".", "j", "s">> }

\* The longest response, in lines, of this specification.
MaxScanLines == 5

InitScan ==
  /\ CallsAt("off")
  /\ AppOff
  /\ \E ls \in SeqsUpTo(ScanVocab, MaxScanLines) :
       ExtractOf(join(ls), [k \in 1..Len(ls) |-> Prose(ls[k])])

\* Any response of at most MaxScanLines lines of ScanVocab.
SpecScan == InitScan /\ [][NextExtract]_vars

\* The lines of the response that start with the fence marker.
fence_lines == {l \in 0..(Len(lines) - 1) : opens_block(At(lines, l))}

\* C21: the entries of the scan are, in order, the contents of ranges of
\* lines first..last-1 of the response such that each range begins right
\* after a line that starts with the fence marker, holds no line that is the
\* bare fence marker, and ends before the next range begins, with a line
\* between them; so no line is in two entries and the scan has at most as
\* many entries as the response has lines that start with the fence marker.
C21_DisjointRanges ==
  LET n == Len(spans)
  IN  /\ n <= Len(files)
      /\ xpc = "scan" => n = Len(files)
      /\ \A k \in 1..n :
           /\ 1 <= spans[k].first
           /\ spans[k].first <= spans[k].last
           /\ spans[k].last <= Len(lines)
           /\ files[k].content = join(SubSeq(lines, spans[k].first + 1, spans[k].last))
           /\ (spans[k].first - 1) \in fence_lines
           /\ \A l \in spans[k].first..(spans[k].last - 1) : strip(At(lines, l)) # FENCE
      /\ \A k \in 1..(n - 1) : spans[k].last < spans[k + 1].first
      /\ \A k, m \in 1..n :
           k # m => (spans[k].first..(spans[k].last - 1))
                      \cap (spans[m].first..(spans[m].last - 1)) = {}
      /\ n <= Cardinality(fence_lines)
      /\ (xpc = "done" /\ n = 0) => Len(files) <= 1

\* The scan has returned two entries from five lines: the block of a bold
\* announcement, closed by a bare fence, and the block of a path fence that
\* runs to the end of the input.
C21_Witness ==
  /\ xpc = "done"
  /\ Len(lines) = 5
  /\ spans = <<[first |-> 2, last |-> 2], [first |-> 4, last |-> 5]>>
  /\ files = <<[path |-> <<"a", ".", "j", "s">>, content |-> <<>>],
               [path |-> <<"e", "/", "f", ".", "j", "s">>, content |-> <<" ", " ", BACKTICK, BACKTICK, BACKTICK, "j", "s">>]>>
====
